---- MODULE Spec2Model ----
(***************************************************************************)
(* rust_compress (src/src/main.rs): a command-line compressor.  main       *)
(* parses the arguments, opens the input, creates the output, lets         *)
(* Compressor::compress spawn num_threads CompressionWorker threads that   *)
(* read the shared input handle and send CompressionMessage values over an *)
(* mpsc channel, collects messages, joins the threads, and hands the       *)
(* chunks to Writer::write, which sorts them by length and writes them.    *)
(*                                                                         *)
(* The DEFLATE codec (flate2) is an external library.  It is modelled by a *)
(* run-length codec with the same interface: bytes are pushed in, the      *)
(* inner output buffer grows behind the input (the run in progress is      *)
(* still inside the encoder), finish() flushes everything and closes the   *)
(* block with an end-of-stream marker, and a finished block decodes alone. *)
(***************************************************************************)
EXTENDS Integers, Sequences, FiniteSets, TLC

\* ---------------------------------------------------------------- bounds
MaxLen == 3          \* longest input file, in bytes
MaxChunk == 2        \* largest chunk_size handed to Compressor::new
MaxArgs == 4         \* largest args.len() (program name included)
Bytes == 0..1        \* byte values of the input file
ThreadCounts == {1, 2}   \* num_threads values checked on every input
MainNumThreads == 4  \* num_threads of main (checked on the empty input)
ExitSuccess == 0     \* process status when main returns Ok(())
ExitFailure == 1     \* process status when main returns Err
ExitPanic == 101     \* process status when the main thread panics
EndOfStream == 0     \* a run count of zero closes a block

RECURSIVE SeqsUpTo(_)
SeqsUpTo(n) ==
    IF n = 0 THEN {<<>>}
    ELSE LET S == SeqsUpTo(n - 1)
         IN  S \cup {Append(s, b) : s \in {t \in S : Len(t) = n - 1}, b \in Bytes}

Inputs == SeqsUpTo(MaxLen)

Min(a, b) == IF a <= b THEN a ELSE b

\* ----------------------------------------------------------------- codec
\* Length of the run of equal bytes raw starts with (raw is not empty).
RECURSIVE RunLen(_)
RunLen(raw) ==
    IF Len(raw) = 1 \/ raw[2] # raw[1] THEN 1
    ELSE 1 + RunLen(Tail(raw))

\* DeflateEncoder::finish: the complete block for everything pushed since
\* the encoder was created: <<count, byte>> per run, then the end marker.
RECURSIVE Finish(_)
Finish(raw) ==
    IF raw = <<>> THEN <<EndOfStream>>
    ELSE LET n == RunLen(raw)
         IN  <<n, raw[1]>> \o Finish(SubSeq(raw, n + 1, Len(raw)))

\* compressor.get_ref().len(): what the encoder has already written to its
\* inner Vec; the run in progress and the end marker are still inside it.
OutLen(raw) == IF raw = <<>> THEN 0 ELSE Len(Finish(raw)) - 3

Repeat(b, n) == [i \in 1..n |-> b]

\* Decompression of one block, on its own.
RECURSIVE Decode(_)
Decode(block) ==
    IF Len(block) < 2 \/ block[1] = EndOfStream THEN <<>>
    ELSE Repeat(block[2], block[1]) \o Decode(SubSeq(block, 3, Len(block)))

\* Decompress each block independently and concatenate in the given order.
RECURSIVE DecodeAll(_)
DecodeAll(blocks) ==
    IF blocks = <<>> THEN <<>>
    ELSE Decode(Head(blocks)) \o DecodeAll(Tail(blocks))

\* ------------------------------------------------------------------ state
VARIABLES
    argc,         \* args.len() in get_args
    input,        \* the bytes of the input file
    chunk_size,   \* Compressor.chunk_size
    num_threads,  \* Compressor.num_threads
    mainPc,       \* where the main thread is
    exitStatus,   \* the process's exit status, -1 until main returns
    filesOpened,  \* number of files main has opened or created
    pos,          \* the file cursor shared by the duplicated handles
    pc,           \* pc[w]: where worker w is
    comp,         \* comp[w]: bytes pushed into w's current encoder
    pending,      \* pending[w]: the message w is about to send
    sent,         \* sent[w]: the messages w has sent, in order
    readLog,      \* readLog[w]: the bytes w's reads have returned, in order
    chan,         \* the mpsc channel: messages sent and not yet received
    rxOpen,       \* the Receiver rx has not been dropped
    received,     \* the messages the collector's loop has received, in order
    chunks,       \* Compressor::compress's chunks vector
    compressRet,  \* "none", "Ok" or "Err": what compress returned
    joined,       \* number of threads joined
    toWrite,      \* Writer::write's sorted compressed_data
    written,      \* blocks written whole to the output file
    partial,      \* bytes of a block whose write_all failed midway
    writeRet      \* "none", "Ok" or "Err": what Writer::write returned

vars == <<argc, input, chunk_size, num_threads, mainPc, exitStatus,
          filesOpened, pos, pc, comp, pending, sent, readLog, chan, rxOpen,
          received,
          chunks, compressRet, joined, toWrite, written, partial, writeRet>>

mainVars == <<argc, input, chunk_size, num_threads>>
workerVars == <<pos, pc, comp, pending, sent, readLog>>
writerVars == <<toWrite, written, partial, writeRet>>

Workers == 1..num_threads

Configs ==
    {<<i, c, n>> : i \in Inputs, c \in 0..MaxChunk, n \in ThreadCounts}
    \cup {<<(<<>>), c, MainNumThreads>> : c \in 1..MaxChunk}

NoMsg == [kind |-> "None", data |-> <<>>, from |-> 0]
DataMsg(w, block) == [kind |-> "Data", data |-> block, from |-> w]
ErrorMsg(w) == [kind |-> "Error", data |-> <<>>, from |-> w]
DoneMsg(w) == [kind |-> "Done", data |-> <<>>, from |-> w]

Init ==
    /\ argc \in 0..MaxArgs
    /\ \E cfg \in Configs :
          /\ input = cfg[1]
          /\ chunk_size = cfg[2]
          /\ num_threads = cfg[3]
    /\ mainPc = "args"
    /\ exitStatus = -1
    /\ filesOpened = 0
    /\ pos = 0
    /\ pc = [w \in Workers |-> "idle"]
    /\ comp = [w \in Workers |-> <<>>]
    /\ pending = [w \in Workers |-> NoMsg]
    /\ sent = [w \in Workers |-> <<>>]
    /\ readLog = [w \in Workers |-> <<>>]
    /\ chan = <<>>
    /\ rxOpen = FALSE
    /\ received = <<>>
    /\ chunks = <<>>
    /\ compressRet = "none"
    /\ joined = 0
    /\ toWrite = <<>>
    /\ written = <<>>
    /\ partial = <<>>
    /\ writeRet = "none"

\* ------------------------------------------------------------------- main
\* get_args and main's `?`: a wrong count makes main return Err (status 1);
\* with no argument at all args[0] panics (status 101).
\* A get_args failure handled like the open failures: main returns Ok.
UsageStatus_Success == ExitSuccess

\* The status main's `?` on get_args ends the process with.
UsageStatus == IF argc = 0 THEN ExitPanic ELSE ExitFailure

GetArgs ==
    /\ mainPc = "args"
    /\ IF argc = 3
       THEN /\ mainPc' = "open"
            /\ exitStatus' = exitStatus
       ELSE /\ mainPc' = "returned"
            /\ exitStatus' = UsageStatus
    /\ UNCHANGED <<mainVars, filesOpened, workerVars, chan, rxOpen, received,
                   chunks, compressRet, joined, writerVars>>

\* File::open(args.input_file_path): on failure main prints and returns Ok.
OpenInput ==
    /\ mainPc = "open"
    /\ \E ok \in BOOLEAN :
          IF ok
          THEN /\ mainPc' = "create"
               /\ filesOpened' = filesOpened + 1
               /\ exitStatus' = exitStatus
          ELSE /\ mainPc' = "returned"
               /\ filesOpened' = filesOpened
               /\ exitStatus' = ExitSuccess
    /\ UNCHANGED <<mainVars, workerVars, chan, rxOpen, received, chunks,
                   compressRet, joined, writerVars>>

\* File::create(args.output_file_path), then compress creates the channel.
CreateOutput ==
    /\ mainPc = "create"
    /\ \E ok \in BOOLEAN :
          IF ok
          THEN /\ mainPc' = "spawn"
               /\ filesOpened' = filesOpened + 1
               /\ rxOpen' = TRUE
               /\ exitStatus' = exitStatus
          ELSE /\ mainPc' = "returned"
               /\ filesOpened' = filesOpened
               /\ rxOpen' = rxOpen
               /\ exitStatus' = ExitSuccess
    /\ UNCHANGED <<mainVars, workerVars, chan, received, chunks, compressRet,
                   joined, writerVars>>

Spawned == Cardinality({w \in Workers : pc[w] # "idle"})

\* One iteration of compress's spawn loop: the next worker starts running.
SpawnWorker ==
    /\ mainPc = "spawn"
    /\ LET w == Spawned + 1
       IN  /\ pc' = [pc EXCEPT ![w] = "read"]
           /\ mainPc' = IF w = num_threads THEN "recv" ELSE "spawn"
    /\ UNCHANGED <<mainVars, readLog, exitStatus, filesOpened, pos, comp, pending,
                   sent, chan, rxOpen, received, chunks, compressRet, joined,
                   writerVars>>

\* The process ends once main has returned; threads still running die.
ProcessExit ==
    /\ mainPc = "returned"
    /\ mainPc' = "exited"
    /\ UNCHANGED <<mainVars, exitStatus, filesOpened, workerVars, chan,
                   rxOpen, received, chunks, compressRet, joined, writerVars>>

\* ----------------------------------------------------------------- worker
Running == mainPc # "exited"

\* A worker that returns on a failed read without sending anything.
ReadFail_Silent(w) ==
    /\ Running
    /\ pc[w] = "read"
    /\ pc' = [pc EXCEPT ![w] = "failed"]
    /\ UNCHANGED <<mainVars, readLog, mainPc, exitStatus, filesOpened, pos,
                   comp, pending, sent, chan, rxOpen, received, chunks,
                   compressRet, joined, writerVars>>

\* input_file.read(&mut buffer) fails: the worker will send Error.
ReadFail(w) ==
    /\ Running
    /\ pc[w] = "read"
    /\ pc' = [pc EXCEPT ![w] = "send_error"]
    /\ pending' = [pending EXCEPT ![w] = ErrorMsg(w)]
    /\ UNCHANGED <<mainVars, readLog, mainPc, exitStatus, filesOpened, pos, comp,
                   sent, chan, rxOpen, received, chunks, compressRet, joined,
                   writerVars>>

\* The number of bytes one read returns: the buffer holds chunk_size bytes,
\* and a read of a regular file fills it unless the file ends first.  The
\* duplicated handles share one cursor, which each read advances atomically.
ReadCount == Min(chunk_size, Len(input) - pos)

\* A worker that at end of input sends Done without finishing its encoder.
ReadEof_NoFinal(w) ==
    /\ Running
    /\ pc[w] = "read"
    /\ ReadCount = 0
    /\ pc' = [pc EXCEPT ![w] = "send_done"]
    /\ pending' = [pending EXCEPT ![w] = DoneMsg(w)]
    /\ comp' = [comp EXCEPT ![w] = <<>>]
    /\ UNCHANGED <<mainVars, readLog, mainPc, exitStatus, filesOpened, pos, sent,
                   chan, rxOpen, received, chunks, compressRet, joined,
                   writerVars>>

\* read returns Ok(0): leave the loop and finish the current encoder.
ReadEof(w) ==
    /\ Running
    /\ pc[w] = "read"
    /\ ReadCount = 0
    /\ pc' = [pc EXCEPT ![w] = "send_final"]
    /\ pending' = [pending EXCEPT ![w] = DataMsg(w, Finish(comp[w]))]
    /\ comp' = [comp EXCEPT ![w] = <<>>]
    /\ UNCHANGED <<mainVars, readLog, mainPc, exitStatus, filesOpened, pos, sent,
                   chan, rxOpen, received, chunks, compressRet, joined,
                   writerVars>>

\* A threshold test on the number of raw bytes accumulated.
ThresholdReached_RawBytes(raw) == Len(raw) >= chunk_size

\* The threshold test of line 90, on the encoder's output buffer.
ThresholdReached(raw) == OutLen(raw) >= chunk_size

\* A worker that keeps feeding the encoder it has just finished.
ReadFeed_KeepsEncoder(w) ==
    /\ Running
    /\ pc[w] = "read"
    /\ ReadCount > 0
    /\ LET raw == comp[w] \o SubSeq(input, pos + 1, pos + ReadCount)
       IN  /\ comp' = [comp EXCEPT ![w] = raw]
           /\ IF ThresholdReached(raw)
              THEN /\ pc' = [pc EXCEPT ![w] = "send_data"]
                   /\ pending' = [pending EXCEPT ![w] = DataMsg(w, Finish(raw))]
              ELSE /\ pc' = pc
                   /\ pending' = pending
    /\ pos' = pos + ReadCount
    /\ readLog' = [readLog EXCEPT ![w] =
                      @ \o SubSeq(input, pos + 1, pos + ReadCount)]
    /\ UNCHANGED <<mainVars, mainPc, exitStatus, filesOpened, sent, chan,
                   rxOpen, received, chunks, compressRet, joined, writerVars>>

\* read returns Ok(n), n > 0, and write_all takes the bytes; when the
\* encoder's output buffer has reached chunk_size the block is finished and
\* a fresh encoder replaces it.
ReadFeed(w) ==
    /\ Running
    /\ pc[w] = "read"
    /\ ReadCount > 0
    /\ LET raw == comp[w] \o SubSeq(input, pos + 1, pos + ReadCount)
       IN  IF ThresholdReached(raw)
           THEN /\ pc' = [pc EXCEPT ![w] = "send_data"]
                /\ pending' = [pending EXCEPT ![w] = DataMsg(w, Finish(raw))]
                /\ comp' = [comp EXCEPT ![w] = <<>>]
           ELSE /\ pc' = pc
                /\ pending' = pending
                /\ comp' = [comp EXCEPT ![w] = raw]
    /\ pos' = pos + ReadCount
    /\ readLog' = [readLog EXCEPT ![w] =
                      @ \o SubSeq(input, pos + 1, pos + ReadCount)]
    /\ UNCHANGED <<mainVars, mainPc, exitStatus, filesOpened, sent, chan,
                   rxOpen, received, chunks, compressRet, joined, writerVars>>

\* read returns Ok(n), n > 0, and write_all fails: the worker will send Error.
FeedFail(w) ==
    /\ Running
    /\ pc[w] = "read"
    /\ ReadCount > 0
    /\ pos' = pos + ReadCount
    /\ readLog' = [readLog EXCEPT ![w] =
                      @ \o SubSeq(input, pos + 1, pos + ReadCount)]
    /\ pc' = [pc EXCEPT ![w] = "send_error"]
    /\ pending' = [pending EXCEPT ![w] = ErrorMsg(w)]
    /\ UNCHANGED <<mainVars, mainPc, exitStatus, filesOpened, comp, sent,
                   chan, rxOpen, received, chunks, compressRet, joined,
                   writerVars>>

\* A worker that returns after its final Data without sending Done.
AfterSend_NoDone(p) ==
    CASE p = "send_data" -> "read"
      [] p = "send_final" -> "done"
      [] p = "send_done" -> "done"
      [] p = "send_error" -> "failed"

\* Where a worker goes after a send that succeeded.
AfterSend(p) ==
    CASE p = "send_data" -> "read"
      [] p = "send_final" -> "send_done"
      [] p = "send_done" -> "done"
      [] p = "send_error" -> "failed"

Sending == {"send_data", "send_final", "send_done", "send_error"}

\* self.sender.send(..).unwrap() with the receiver alive.
Send(w) ==
    /\ Running
    /\ pc[w] \in Sending
    /\ rxOpen
    /\ chan' = Append(chan, pending[w])
    /\ sent' = [sent EXCEPT ![w] = Append(@, pending[w])]
    /\ pc' = [pc EXCEPT ![w] = AfterSend(pc[w])]
    /\ pending' = [pending EXCEPT ![w] =
                      IF pc[w] = "send_final" THEN DoneMsg(w) ELSE NoMsg]
    /\ UNCHANGED <<mainVars, readLog, mainPc, exitStatus, filesOpened, pos, comp,
                   rxOpen, received, chunks, compressRet, joined, writerVars>>

\* self.sender.send(..).unwrap() with the receiver dropped: send returns
\* Err and unwrap panics the worker thread.
SendPanic(w) ==
    /\ Running
    /\ pc[w] \in Sending
    /\ ~rxOpen
    /\ pc' = [pc EXCEPT ![w] = "panicked"]
    /\ pending' = [pending EXCEPT ![w] = NoMsg]
    /\ UNCHANGED <<mainVars, readLog, mainPc, exitStatus, filesOpened, pos, comp,
                   sent, chan, rxOpen, received, chunks, compressRet, joined,
                   writerVars>>

Terminated(w) == pc[w] \in {"done", "failed", "panicked"}

\* A join that does not wait for the thread.
JoinReady_NoWait(w) == TRUE

\* thread.join() returns once the thread has terminated.
JoinReady(w) == Terminated(w)

\* Writer::write's sort_by_key(|chunk| chunk.len()): a stable sort.
RECURSIVE InsertByLen(_, _)
InsertByLen(s, x) ==
    IF s = <<>> THEN <<x>>
    ELSE IF Len(s[Len(s)]) <= Len(x) THEN Append(s, x)
    ELSE Append(InsertByLen(SubSeq(s, 1, Len(s) - 1), x), s[Len(s)])

\* A writer that keeps the arrival order.
SortByLen_Unsorted(s) == s

RECURSIVE SortByLen(_)
SortByLen(s) ==
    IF s = <<>> THEN <<>>
    ELSE InsertByLen(SortByLen(SubSeq(s, 1, Len(s) - 1)), s[Len(s)])

\* -------------------------------------------------------------- collector
\* A receive loop that runs until a Done or an Error.
AfterData_Unbounded(n) == "recv"

\* After a Data, the n-th message: the loop `for _ in 0..num_threads` goes
\* on while fewer than num_threads iterations have been done.
AfterData(n) == IF n >= num_threads THEN "join" ELSE "recv"

\* rx.recv() returns Ok(Data(data)).
RecvData ==
    /\ mainPc = "recv"
    /\ chan # <<>>
    /\ Head(chan).kind = "Data"
    /\ chunks' = Append(chunks, Head(chan).data)
    /\ chan' = Tail(chan)
    /\ received' = Append(received, Head(chan))
    /\ mainPc' = AfterData(Len(received) + 1)
    /\ UNCHANGED <<mainVars, exitStatus, filesOpened, workerVars, rxOpen,
                   compressRet, joined, writerVars>>

\* A caller that logs the Err of compress and writes what was collected.
RecvError_WritesAnyway ==
    /\ mainPc = "recv"
    /\ chan # <<>>
    /\ Head(chan).kind = "Error"
    /\ received' = Append(received, Head(chan))
    /\ chan' = <<>>
    /\ rxOpen' = FALSE
    /\ compressRet' = "Err"
    /\ toWrite' = SortByLen(chunks)
    /\ mainPc' = "write"
    /\ UNCHANGED <<mainVars, exitStatus, filesOpened, workerVars, chunks,
                   joined, written, partial, writeRet>>

\* rx.recv() returns Ok(Error(e)): compress returns Err(e) at once, which
\* drops rx, the queued messages and the chunks; main's `?` returns it.
RecvError ==
    /\ mainPc = "recv"
    /\ chan # <<>>
    /\ Head(chan).kind = "Error"
    /\ received' = Append(received, Head(chan))
    /\ chan' = <<>>
    /\ rxOpen' = FALSE
    /\ chunks' = <<>>
    /\ compressRet' = "Err"
    /\ exitStatus' = ExitFailure
    /\ mainPc' = "returned"
    /\ UNCHANGED <<mainVars, filesOpened, workerVars, joined, writerVars>>

\* A collector that drops the receiver when it leaves the loop at a Done.
RecvDone_DropsRx ==
    /\ mainPc = "recv"
    /\ chan # <<>>
    /\ Head(chan).kind = "Done"
    /\ chan' = <<>>
    /\ rxOpen' = FALSE
    /\ received' = Append(received, Head(chan))
    /\ mainPc' = "join"
    /\ UNCHANGED <<mainVars, exitStatus, filesOpened, workerVars, chunks,
                   compressRet, joined, writerVars>>

\* rx.recv() returns Ok(Done): break.
RecvDone ==
    /\ mainPc = "recv"
    /\ chan # <<>>
    /\ Head(chan).kind = "Done"
    /\ chan' = Tail(chan)
    /\ received' = Append(received, Head(chan))
    /\ mainPc' = "join"
    /\ UNCHANGED <<mainVars, exitStatus, filesOpened, workerVars, rxOpen,
                   chunks, compressRet, joined, writerVars>>

\* thread.join().unwrap() on the next thread, which has terminated.  After
\* the last join compress returns Ok(chunks), rx is dropped, and main calls
\* Writer::write, which sorts the blocks.  Joining a thread that panicked
\* panics the main thread.
JoinThread ==
    /\ mainPc = "join"
    /\ LET w == joined + 1
       IN  /\ JoinReady(w)
           /\ joined' = w
           /\ IF pc[w] = "panicked"
              THEN /\ mainPc' = "returned"
                   /\ exitStatus' = ExitPanic
                   /\ UNCHANGED <<compressRet, toWrite>>
              ELSE IF w = num_threads
              THEN /\ mainPc' = "write"
                   /\ compressRet' = "Ok"
                   /\ toWrite' = SortByLen(chunks)
                   /\ exitStatus' = exitStatus
              ELSE /\ mainPc' = "join"
                   /\ UNCHANGED <<compressRet, toWrite, exitStatus>>
           /\ rxOpen' = (rxOpen /\ mainPc' = "join")
           /\ chan' = IF mainPc' = "join" THEN chan ELSE <<>>
    /\ UNCHANGED <<mainVars, filesOpened, workerVars, received, chunks, written,
                   partial, writeRet>>

\* ----------------------------------------------------------------- writer
\* output_file.write_all(chunk) succeeds for the next block.
WriteChunk ==
    /\ mainPc = "write"
    /\ toWrite # <<>>
    /\ written' = Append(written, Head(toWrite))
    /\ toWrite' = Tail(toWrite)
    /\ UNCHANGED <<mainVars, mainPc, exitStatus, filesOpened, workerVars,
                   chan, rxOpen, received, chunks, compressRet, joined, partial,
                   writeRet>>

\* A writer that logs a failed write and goes on with the next block.
WriteFail_GoesOn ==
    /\ mainPc = "write"
    /\ toWrite # <<>>
    /\ partial' = <<>>
    /\ writeRet' = "Err"
    /\ toWrite' = Tail(toWrite)
    /\ UNCHANGED <<mainVars, mainPc, exitStatus, filesOpened, workerVars,
                   chan, rxOpen, received, chunks, compressRet, joined,
                   written>>

\* output_file.write_all(chunk) fails, after some of the block's bytes may
\* have gone out: write returns Err(e) and main's `?` returns it.
WriteFail ==
    /\ mainPc = "write"
    /\ toWrite # <<>>
    /\ \E n \in 0..(Len(Head(toWrite)) - 1) :
          partial' = SubSeq(Head(toWrite), 1, n)
    /\ writeRet' = "Err"
    /\ mainPc' = "returned"
    /\ exitStatus' = ExitFailure
    /\ UNCHANGED <<mainVars, filesOpened, workerVars, chan, rxOpen, received,
                   chunks, compressRet, joined, toWrite, written>>

\* Every block is written: write returns Ok(()) and so does main.
WriteDone ==
    /\ mainPc = "write"
    /\ toWrite = <<>>
    /\ writeRet' = "Ok"
    /\ mainPc' = "returned"
    /\ exitStatus' = ExitSuccess
    /\ UNCHANGED <<mainVars, filesOpened, workerVars, chan, rxOpen, received,
                   chunks, compressRet, joined, toWrite, written, partial>>

\* ------------------------------------------------------------------- next
Next ==
    \/ GetArgs
    \/ OpenInput
    \/ CreateOutput
    \/ SpawnWorker
    \/ \E w \in Workers : ReadFail(w)
    \/ \E w \in Workers : ReadEof(w)
    \/ \E w \in Workers : ReadFeed(w)
    \/ \E w \in Workers : FeedFail(w)
    \/ \E w \in Workers : Send(w)
    \/ \E w \in Workers : SendPanic(w)
    \/ RecvData
    \/ RecvError
    \/ RecvDone
    \/ JoinThread
    \/ WriteChunk
    \/ WriteFail
    \/ WriteDone
    \/ ProcessExit

Spec == Init /\ [][Next]_vars

\* ----------------------------------------------------------------- claims
Range(s) == {s[i] : i \in 1..Len(s)}
Count(s, x) == Cardinality({i \in 1..Len(s) : s[i] = x})
IsPermutation(a, b) ==
    /\ Len(a) = Len(b)
    /\ \A x \in Range(a) \cup Range(b) : Count(a, x) = Count(b, x)
DataOf(msgs) == {m \in Range(msgs) : m.kind = "Data"}
HasSentError(w) == \E m \in Range(sent[w]) : m.kind = "Error"
MainReturned == mainPc \in {"returned", "exited"}

\* C1: with one worker and no failed read or write, decompressing the
\* written blocks one by one and concatenating them in file order gives the
\* input back, also when the worker finalizes more than one block.
\* (chunk_size = 0, where the first read fills an empty buffer and returns
\* Ok(0), is left out so that the violation shown is the ordinary one.)
C1_RoundTripOneWorker ==
    (/\ num_threads = 1
     /\ chunk_size >= 1
     /\ writeRet = "Ok"
     /\ pc[1] = "done")
    => DecodeAll(written) = input

\* C2: in every execution in which a worker has sent an Error message,
\* compress returns Err: it never returns Ok.
C2_ErrorPropagates ==
    compressRet = "Ok" => \A w \in Workers : ~HasSentError(w)

\* C3: compress never returns Ok while some worker's Done has not been
\* received, so every Data block any worker sent is in the returned list.
C3_GathersUntilAllDone ==
    compressRet = "Ok" =>
        \A w \in Workers :
            /\ DoneMsg(w) \in Range(received)
            /\ DataOf(sent[w]) \subseteq Range(received)

\* C4: what Writer::write writes is a permutation of the blocks compress
\* returned, in non-decreasing order of compressed length, strictly
\* ascending between blocks of different lengths, whatever order the blocks
\* arrived in.
C4_AscendingLength ==
    /\ compressRet = "Ok" =>
          /\ IsPermutation(written \o toWrite, chunks)
          /\ \A i, j \in 1..Len(written) :
                i < j => /\ Len(written[i]) <= Len(written[j])
                         /\ (Len(written[i]) # Len(written[j])
                               => Len(written[i]) < Len(written[j]))
    /\ writeRet = "Ok" => IsPermutation(written, chunks)

\* C4's case: two blocks of different lengths that arrived longest first
\* have both been written.
C4_Witness ==
    /\ writeRet = "Ok"
    /\ Len(chunks) = 2
    /\ Len(chunks[1]) > Len(chunks[2])
    /\ written = <<chunks[2], chunks[1]>>

\* C5, as stated: on the empty input with main's num_threads = 4 and no
\* failure, exactly one block is written and it decompresses to nothing.
C5_OneBlockOnEmptyInput ==
    (/\ input = <<>>
     /\ num_threads = MainNumThreads
     /\ writeRet = "Ok"
     /\ \A w \in Workers : pc[w] = "done")
    => /\ Len(written) = 1
       /\ DecodeAll(written) = <<>>

\* C5, amended: on the empty input with num_threads = 4, every worker that
\* reaches end of input produces exactly one block, the empty block, so four
\* blocks are produced when no read fails; Writer::write writes at least one
\* and at most num_threads of them, and the output decompresses to nothing.
C5_EmptyInputBlocks ==
    (input = <<>> /\ num_threads = MainNumThreads) =>
        /\ \A w \in Workers :
              pc[w] = "done" => DataOf(sent[w]) = {DataMsg(w, Finish(<<>>))}
                                /\ Len(sent[w]) = 2
        /\ writeRet = "Ok" =>
              /\ Len(written) >= 1
              /\ Len(written) <= num_threads
              /\ \A i \in 1..Len(written) : written[i] = Finish(<<>>)
              /\ DecodeAll(written) = <<>>

\* C5's case: empty input, four workers, all ended normally, three blocks
\* written.
C5_Witness ==
    /\ input = <<>>
    /\ num_threads = MainNumThreads
    /\ \A w \in Workers : pc[w] = "done"
    /\ writeRet = "Ok"
    /\ Len(written) = 3

\* C6: whenever compress has returned, on the Ok path or on the Err path,
\* every spawned worker thread has terminated (was joined).
C6_JoinBeforeReturn ==
    compressRet # "none" => \A w \in Workers : Terminated(w)

\* C7: whenever Writer::write has put a byte into the output file, every
\* one of the num_threads workers has terminated.
C7_WriteAfterWorkers ==
    (mainPc = "write" \/ written # <<>> \/ partial # <<>>)
    => \A w \in Workers : Terminated(w)

\* C7's case: two workers, and a block is in the output file.
C7_Witness ==
    /\ num_threads = 2
    /\ written # <<>>
    /\ \E w \in Workers : Len(sent[w]) >= 3

\* C8: when writing the k-th block fails, write returns the error at once
\* (main returns it), the blocks before k stay in the file, and no block is
\* written afterwards.
C8_WriterFailure ==
    /\ [](writeRet = "Err" =>
            /\ MainReturned
            /\ exitStatus = ExitFailure
            /\ toWrite # <<>>
            /\ written \o toWrite = SortByLen(chunks)
            /\ \E n \in 0..(Len(Head(toWrite)) - 1) :
                  partial = SubSeq(Head(toWrite), 1, n))
    /\ [][writeRet' = "Err" => written' = written]_vars
    /\ [][writeRet = "Err" => toWrite' = toWrite /\ partial' = partial]_vars

\* C8's case: the write failed on a block with blocks before and after it.
C8_Witness ==
    /\ writeRet = "Err"
    /\ written # <<>>
    /\ Len(toWrite) >= 2

Kinds(w) == [i \in 1..Len(sent[w]) |-> sent[w][i].kind]

\* C10: what one worker has sent is always Data*, then nothing yet, or
\* (Data, Done) or Error: Done and Error come last, Done right after a
\* Data; a worker that returned at end of input has sent its final Data,
\* also from an accumulation below the threshold, and then Done; a worker
\* that returned on a failed read or feed has sent one Error and no Done.
C10_WorkerProtocol ==
    \A w \in Workers :
        LET k == Kinds(w)
            n == Len(k)
        IN  /\ \A i \in 1..n : k[i] \in {"Data", "Done", "Error"}
            /\ \A i \in 1..n : k[i] = "Done" => i = n /\ i >= 2 /\ k[i - 1] = "Data"
            /\ \A i \in 1..n : k[i] = "Error" => i = n
            /\ pc[w] = "send_final" => /\ pending[w].kind = "Data"
                                       /\ (n > 0 => k[n] = "Data")
            /\ pc[w] = "send_done" => n >= 1 /\ k[n] = "Data"
            /\ pc[w] = "done" => n >= 2 /\ k[n] = "Done"
            /\ pc[w] = "failed" => n >= 1 /\ k[n] = "Error"
            /\ pc[w] \in {"idle", "read", "send_data", "send_error"} =>
                  \A i \in 1..n : k[i] = "Data"

\* C10's case: a worker returned at end of input after a threshold block, a
\* final block from an accumulation below the threshold, and Done.
C10_Witness ==
    \E w \in Workers :
        /\ pc[w] = "done"
        /\ Len(sent[w]) = 3
        /\ Decode(sent[w][2].data) # <<>>
        /\ OutLen(Decode(sent[w][2].data)) < chunk_size

\* C11: once a worker has sent Error and terminated, no other worker is
\* terminated abnormally: none panics.
C11_SiblingsUnaffected ==
    (\E w \in Workers : pc[w] = "failed")
    => \A v \in Workers : pc[v] # "panicked"

\* C12: compress spawns exactly num_threads workers before it receives; its
\* loop consumes at most num_threads messages and none after a Done (or an
\* Error): a Done or an Error is the last message received, and the loop has
\* been left once num_threads messages or a Done were received.
C12_BoundedReceive ==
    /\ Len(received) <= num_threads
    /\ \A i \in 1..Len(received) :
          received[i].kind \in {"Done", "Error"} => i = Len(received)
    /\ (mainPc \in {"recv", "join", "write"} \/ compressRet # "none")
          => Spawned = num_threads
    /\ mainPc = "recv" =>
          /\ Len(received) < num_threads
          /\ \A i \in 1..Len(received) : received[i].kind = "Data"
    /\ received # <<>> => mainPc \notin {"args", "open", "create", "spawn"}

\* C12's case: compress returned Ok having left its loop at a Done before
\* num_threads messages, with a Data and an Error sent and never consumed.
C12_Witness ==
    /\ compressRet = "Ok"
    /\ Len(received) < num_threads
    /\ received[Len(received)].kind = "Done"
    /\ \E w \in Workers : \E m \in Range(sent[w]) :
          m.kind = "Data" /\ m \notin Range(received)
    /\ \E w \in Workers : \E m \in Range(sent[w]) :
          m.kind = "Error" /\ m \notin Range(received)

\* C13: a worker finalizes and emits a Data block before end of input
\* exactly when, right after a non-empty read was fed to its encoder, the
\* encoder's output buffer is at least chunk_size long; the block holds all
\* that was fed since the last finalize and the worker goes on with an empty
\* encoder.  Below the threshold it keeps accumulating and reads again.
C13_ThresholdTrigger ==
    [][\A w \in Workers :
          /\ (pc[w] = "read" /\ readLog'[w] # readLog[w]
                /\ pc'[w] # "send_error") =>
                LET raw == comp[w] \o SubSeq(input, pos + 1, pos')
                IN  IF OutLen(raw) >= chunk_size
                    THEN /\ pc'[w] = "send_data"
                         /\ pending'[w] = DataMsg(w, Finish(raw))
                         /\ comp'[w] = <<>>
                    ELSE /\ pc'[w] = "read"
                         /\ comp'[w] = raw
                         /\ sent'[w] = sent[w]
          /\ (pc[w] # "send_data" /\ pc'[w] = "send_data") =>
                pc[w] = "read" /\ readLog'[w] # readLog[w]
          /\ (pc[w] = "send_data" /\ pc'[w] = "read") => comp'[w] = <<>>
      ]_vars

\* C13's case: after a block emitted at the threshold, a worker holds at
\* least chunk_size raw bytes in its fresh encoder and has not finalized:
\* the encoder's output is still below chunk_size.
C13_Witness ==
    \E w \in Workers :
        /\ pc[w] = "read"
        /\ chunk_size >= 1
        /\ sent[w] # <<>>
        /\ Len(comp[w]) >= chunk_size
        /\ OutLen(comp[w]) < chunk_size

IsData(m) == m.kind = "Data"
DataBlocks(msgs) ==
    LET d == SelectSeq(msgs, IsData)
    IN  [i \in 1..Len(d) |-> d[i].data]

\* C14: the raw contents of the Data blocks a worker emitted, in emission
\* order, followed by what its block about to be sent and its current
\* encoder hold, are the bytes the worker read, in order; for a worker that
\* ended without error the blocks alone are exactly the bytes it read, and
\* each block is the compression of its own raw content.
C14_BlocksPartitionReads ==
    \A w \in Workers :
        /\ pc[w] \notin {"send_error", "failed", "panicked"} =>
              DecodeAll(DataBlocks(sent[w]))
                 \o (IF pending[w].kind = "Data"
                     THEN Decode(pending[w].data) ELSE <<>>)
                 \o comp[w]
              = readLog[w]
        /\ pc[w] = "done" => DecodeAll(DataBlocks(sent[w])) = readLog[w]
        /\ \A m \in DataOf(sent[w]) : m.data = Finish(Decode(m.data))

\* C14's case: with two workers racing, one ended without error after a
\* threshold block and a final block, having read a part of the input only.
C14_Witness ==
    \E w \in Workers :
        /\ num_threads = 2
        /\ pc[w] = "done"
        /\ Len(sent[w]) = 3
        /\ readLog[w] # <<>>
        /\ readLog[w] # input

\* Some thread that can take a step eventually takes one: the operating
\* system schedules the threads and every read and write call returns.
FairSpec == Spec /\ WF_vars(Next)

\* C17: under fair scheduling every call of compress returns: from the
\* spawn loop, the receive loop (the collector never waits for ever) and the
\* join loop (every join completes) the collector reaches its return.
C17_CompressReturns ==
    (mainPc \in {"spawn", "recv", "join"}) ~> (compressRet # "none")

\* C17's case: compress has returned after a receive loop that took two
\* messages from two workers and a join of both.
C17_Witness ==
    /\ compressRet = "Ok"
    /\ num_threads = 2
    /\ Len(received) = 2
    /\ joined = 2

\* C18: whenever compress returns Ok its list holds at least one and at
\* most num_threads chunks; the first message received is never Done, and on
\* the channel every Done comes after a Data of the same worker.
C18_ResultSize ==
    /\ compressRet = "Ok" => Len(chunks) >= 1 /\ Len(chunks) <= num_threads
    /\ received # <<>> => received[1].kind # "Done"
    /\ LET all == received \o chan
       IN  \A i \in 1..Len(all) :
              all[i].kind = "Done" =>
                 \E j \in 1..(i - 1) :
                    all[j].kind = "Data" /\ all[j].from = all[i].from

\* C18's case: with two workers compress returned Ok with one chunk only,
\* the second message received being the Done of the same worker.
C18_Witness ==
    /\ compressRet = "Ok"
    /\ num_threads = 2
    /\ Len(chunks) = 1
    /\ Len(received) = 2
    /\ received[2].kind = "Done"

\* C19: if compress returns Err, Writer::write is never called and nothing
\* is written: the output file stays created and empty, the blocks collected
\* before the Error are dropped, and main returns the error.
C19_NoOutputOnError ==
    compressRet = "Err" =>
        /\ writeRet = "none"
        /\ toWrite = <<>>
        /\ written = <<>>
        /\ partial = <<>>
        /\ chunks = <<>>
        /\ filesOpened = 2
        /\ MainReturned
        /\ exitStatus = ExitFailure

\* C19's case: compress returned Err after it had collected a Data block.
C19_Witness ==
    /\ compressRet = "Err"
    /\ Len(received) >= 2
    /\ received[1].kind = "Data"
    /\ mainPc = "exited"

\* C20: a worker's send fails (the worker panics) only after compress has
\* returned Err; when the collector left its loop without an Error the
\* receiver stays open until the last join, no worker panics, every join
\* succeeds and compress returns Ok with the main thread not panicking.
C20_NoFailedSendOnSuccess ==
    /\ (\E w \in Workers : pc[w] = "panicked") => compressRet = "Err"
    /\ mainPc = "join" => rxOpen
    /\ (mainPc \in {"recv", "join"} /\ \E w \in Workers : pc[w] \in Sending)
          => rxOpen
    /\ compressRet = "Ok" =>
          /\ joined = num_threads
          /\ \A w \in Workers : pc[w] \in {"done", "failed"}
    /\ argc = 3 => exitStatus # ExitPanic

\* C20's case: the collector has left its loop without an Error and joined
\* a first thread while another worker is about to send; and that send
\* succeeds, see the messages sent and not received of C12's case.
C20_Witness ==
    /\ mainPc = "join"
    /\ joined >= 1
    /\ \A i \in 1..Len(received) : received[i].kind # "Error"
    /\ \E w \in Workers : pc[w] \in Sending

====
